---------------------------- MODULE Spec2Model ----------------------------
(***************************************************************************)
(* A model of pywal/colors.py: the slot matcher (match_colors), the        *)
(* palette post-processors (saturate_colors, generic_adjust), the cache    *)
(* file name (cache_fname) and the cached palette generation (get).        *)
(*                                                                         *)
(* Python strings are modelled as sequences of one-character strings, so   *)
(* that parsing, substitution and formatting are computed and not assumed. *)
(***************************************************************************)
EXTENDS Integers, Sequences, FiniteSets, TLC

VARIABLES
    \* match_colors(colors): its argument, its locals and its position
    colors, out, cs, i, mpc,
    \* saturate_colors / generic_adjust / cache_fname: one call and its result
    call, result,
    \* get: the files of the cache directory, the images' byte sizes,
    \* util.Color.alpha_num and the number of calls made; and, recorded for
    \* the properties: the last call with its outcome, the first Scheme
    \* returned per arguments and byte size, the latest call per arguments,
    \* and the key each cache file was generated for
    files, fsize, alpha_num, last, first, prev, origin, ncalls

mvars == <<colors, out, cs, i, mpc>>
pvars == <<call, result>>
gvars == <<files, fsize, alpha_num, last, first, prev, origin, ncalls>>
vars == <<colors, out, cs, i, mpc, call, result, files, fsize, alpha_num, last, first, prev, origin, ncalls>>

\* Python's None, as a value comparable with the modelled strings
None == <<"None">>

-----------------------------------------------------------------------------
(* Bounds of the model *)

\* rotations of the input list that are tried
MaxRot == 2
\* positions of the input list that may repeat the input's first colour
MaxDup == 3
\* calls of get in one behaviour
MaxCalls == 3

-----------------------------------------------------------------------------
(* x_colors and the colour distance *)

\* x_colors_b: the 16 reference colours, in slot order
x_colors_b ==
    << <<0, 0, 0>>, <<205, 0, 0>>, <<0, 205, 0>>, <<205, 205, 0>>,
       <<0, 0, 238>>, <<205, 0, 205>>, <<0, 205, 205>>, <<229, 229, 229>>,
       <<255, 0, 0>>, <<0, 255, 0>>, <<255, 255, 0>>, <<92, 92, 255>>,
       <<255, 0, 255>>, <<0, 255, 255>>, <<127, 127, 127>>, <<255, 255, 255>> >>

\* x_colors: each channel of x_colors_b divided by 255.0. Every channel of the
\* model is kept as its numerator over the common denominator 255.
x_colors == x_colors_b

\* int(c, 16) of one character; -1 where int() raises ValueError
HexVal(c) ==
    CASE c = "0" -> 0 [] c = "1" -> 1 [] c = "2" -> 2 [] c = "3" -> 3
      [] c = "4" -> 4 [] c = "5" -> 5 [] c = "6" -> 6 [] c = "7" -> 7
      [] c = "8" -> 8 [] c = "9" -> 9
      [] c \in {"a", "A"} -> 10 [] c \in {"b", "B"} -> 11
      [] c \in {"c", "C"} -> 12 [] c \in {"d", "D"} -> 13
      [] c \in {"e", "E"} -> 14 [] c \in {"f", "F"} -> 15
      [] OTHER -> -1

\* str.lstrip("#"): every leading '#' is dropped
RECURSIVE lstrip_hash(_)
lstrip_hash(s) ==
    IF s # <<>> /\ Head(s) = "#" THEN lstrip_hash(Tail(s)) ELSE s

\* hex_to_rgb: the three channels of a "#rrggbb" string, as numerators over 255
hex_to_rgb(hex_color) ==
    LET h == lstrip_hash(hex_color)
    IN  [k \in 1..3 |-> 16 * HexVal(h[2 * k - 1]) + HexVal(h[2 * k])]

\* color_diff: sqrt(dr^2 + dg^2 + db^2) over channels in [0, 1]. The model
\* keeps the radicand times 255^2, an integer; sqrt and the division are
\* monotone, so order and equality of distances are those of the code.
color_diff(rgb1, hex_color2) ==
    LET rgb2 == hex_to_rgb(hex_color2)
    IN  (rgb2[1] - rgb1[1]) * (rgb2[1] - rgb1[1])
      + (rgb2[2] - rgb1[2]) * (rgb2[2] - rgb1[2])
      + (rgb2[3] - rgb1[3]) * (rgb2[3] - rgb1[3])

-----------------------------------------------------------------------------
(* match_colors *)

\* min(cs, key): Python scans left to right and replaces the best element
\* only by one whose key is strictly smaller. Returns the element's index.
RECURSIVE min_scan(_, _, _, _)
min_scan(s, x_color, k, best) ==
    IF k > Len(s) THEN best
    ELSE IF color_diff(x_color, s[k]) < color_diff(x_color, s[best])
         THEN min_scan(s, x_color, k + 1, k)
         ELSE min_scan(s, x_color, k + 1, best)

\* a scan that keeps the last of several minimal elements
RECURSIVE min_scan_last(_, _, _, _)
min_scan_last(s, x_color, k, best) ==
    IF k > Len(s) THEN best
    ELSE IF color_diff(x_color, s[k]) <= color_diff(x_color, s[best])
         THEN min_scan_last(s, x_color, k + 1, k)
         ELSE min_scan_last(s, x_color, k + 1, best)

py_min_last(s, x_color) == s[min_scan_last(s, x_color, 2, 1)]

\* min(cs, key=l): the value of the first element of least distance
py_min(s, x_color) == s[min_scan(s, x_color, 2, 1)]

\* a removal that drops the head of the list whatever the value
list_remove_head(s, v) == Tail(s)

\* list.remove(v): the first element equal to v is dropped
list_remove(s, v) ==
    LET k == CHOOSE k \in 1..Len(s) : s[k] = v /\ \A j \in 1..(k - 1) : s[j] # v
    IN  [j \in 1..(Len(s) - 1) |-> IF j < k THEN s[j] ELSE s[j + 1]]

\* One iteration of the loop of match_colors, for the 0-based slot n:
\* ValueError when cs is empty (min of an empty sequence).
MatchStep(o, c, n) ==
    IF c = <<>> THEN [err |-> "ValueError", out |-> o, cs |-> c]
    ELSE LET desired == py_min(c, x_colors[n + 1])
         IN  IF n + 1 > Len(o)
             THEN [err |-> "IndexError", out |-> o, cs |-> c]
             ELSE [err |-> "", out |-> [o EXCEPT ![n + 1] = desired],
                   cs |-> list_remove(c, desired)]

\* the loop of match_colors from slot n on: the list returned, or the
\* exception raised
RECURSIVE match_loop(_, _, _)
match_loop(o, c, n) ==
    IF n = Len(x_colors) THEN [err |-> "", out |-> o]
    ELSE CHOOSE res \in
            { IF s.err # "" THEN [err |-> s.err, out |-> None]
              ELSE match_loop(s.out, s.cs, n + 1) : s \in {MatchStep(o, c, n)} } : TRUE

-----------------------------------------------------------------------------
(* Input colours *)

HexDigits == <<"0", "1", "2", "3", "4", "5", "6", "7",
               "8", "9", "a", "b", "c", "d", "e", "f">>

\* util.rgb_to_hex: "#%02x%02x%02x"
rgb_to_hex(r, g, b) ==
    <<"#", HexDigits[(r \div 16) + 1], HexDigits[(r % 16) + 1],
           HexDigits[(g \div 16) + 1], HexDigits[(g % 16) + 1],
           HexDigits[(b \div 16) + 1], HexDigits[(b % 16) + 1]>>

\* The colours a backend may hand over: near and far from the reference
\* colours, equidistant pairs, and one pair that differs only in letter case.
Pool ==
    << rgb_to_hex(0, 0, 0),       rgb_to_hex(205, 0, 0),
       <<"#", "C", "D", "0", "0", "0", "0">>,
       rgb_to_hex(0, 205, 0),     rgb_to_hex(255, 255, 255),
       rgb_to_hex(254, 254, 254), rgb_to_hex(127, 127, 127),
       rgb_to_hex(128, 128, 128), rgb_to_hex(0, 0, 238),
       rgb_to_hex(255, 0, 255),   rgb_to_hex(0, 255, 255),
       rgb_to_hex(250, 240, 10),  rgb_to_hex(92, 92, 255),
       rgb_to_hex(18, 52, 86),    rgb_to_hex(101, 67, 33),
       rgb_to_hex(229, 229, 229), rgb_to_hex(1, 0, 0),
       rgb_to_hex(0, 1, 0) >>

\* s without its elements at positions a < b
Without(s, a, b) ==
    [k \in 1..(Len(s) - 2) |->
        IF k < a THEN s[k] ELSE IF k + 1 < b THEN s[k + 1] ELSE s[k + 2]]

\* s rotated to the left by r
Rot(s, r) == [k \in 1..Len(s) |-> s[((k - 1 + r) % Len(s)) + 1]]

\* s with its element at position d + 1 replaced by its first (d = 0: s)
Dup(s, d) == IF d = 0 \/ d >= Len(s) THEN s ELSE [s EXCEPT ![d + 1] = s[1]]

\* 16-colour lists of pairwise distinct colours
DistinctInputs ==
    { Rot(Without(Pool, p[1], p[2]), r) :
        p \in {q \in (1..Len(Pool)) \X (1..Len(Pool)) : q[1] < q[2]},
        r \in 0..MaxRot }

\* 16-colour lists, repeated colours allowed
MatchInputs == { Dup(s, d) : s \in DistinctInputs, d \in 0..MaxDup }

-----------------------------------------------------------------------------
(* Python values: numbers, strings, truth and conversion *)

Digits == <<"0", "1", "2", "3", "4", "5", "6", "7", "8", "9">>

\* the value of one decimal digit; -1 for any other character
DigitVal(c) ==
    IF \E d \in 1..10 : Digits[d] = c
    THEN (CHOOSE d \in 1..10 : Digits[d] = c) - 1
    ELSE -1

\* The values an amount of saturation may take: a string, a float (kept in
\* hundredths) or None.
PyStr(s) == [t |-> "str", s |-> s, n |-> 0]
PyFloat(h) == [t |-> "float", s |-> <<>>, n |-> h]
PyNone == [t |-> "None", s |-> <<>>, n |-> 0]

\* "%s" % n for an int n >= 0
RECURSIVE int_to_str(_)
int_to_str(n) ==
    IF n < 10 THEN <<Digits[n + 1]>>
    ELSE int_to_str(n \div 10) \o <<Digits[(n % 10) + 1]>>

\* the value of a run of decimal digits; -1 if it is empty or holds another
\* character
RECURSIVE digits_val(_, _)
digits_val(s, acc) ==
    IF s = <<>> THEN acc
    ELSE IF DigitVal(Head(s)) < 0 THEN -1
    ELSE digits_val(Tail(s), 10 * acc + DigitVal(Head(s)))

\* the position of the first "." of s, or 0
DotAt(s) ==
    IF \E k \in 1..Len(s) : s[k] = "."
    THEN CHOOSE k \in 1..Len(s) : s[k] = "." /\ \A j \in 1..(k - 1) : s[j] # "."
    ELSE 0

\* float(s) of a plain decimal literal [-]d*[.d[d]], in hundredths;
\* ValueError for every other string of the model
py_float_str(s) ==
    LET neg == s # <<>> /\ Head(s) = "-"
        u == IF neg THEN Tail(s) ELSE s
        d == DotAt(u)
        ip == IF d = 0 THEN u ELSE SubSeq(u, 1, d - 1)
        fp == IF d = 0 THEN <<>> ELSE SubSeq(u, d + 1, Len(u))
        iv == IF ip = <<>> THEN (IF fp = <<>> THEN -1 ELSE 0)
              ELSE digits_val(ip, 0)
        fv == IF fp = <<>> THEN 0
              ELSE IF Len(fp) = 1 THEN 10 * digits_val(fp, 0)
              ELSE IF Len(fp) = 2 THEN digits_val(fp, 0)
              ELSE -1
    IN  IF iv < 0 \/ fv < 0
        THEN [err |-> "ValueError", val |-> 0]
        ELSE [err |-> "", val |-> (IF neg THEN -1 ELSE 1) * (100 * iv + fv)]

\* float(amount): a float is itself, a string is parsed, None is a TypeError
py_float(x) ==
    CASE x.t = "float" -> [err |-> "", val |-> x.n]
      [] x.t = "str" -> py_float_str(x.s)
      [] OTHER -> [err |-> "TypeError", val |-> 0]

\* bool(amount): None, "" and 0.0 are false, every other value is true
py_bool(x) ==
    CASE x.t = "float" -> x.n # 0
      [] x.t = "str" -> x.s # <<>>
      [] OTHER -> FALSE

\* repr of a float with at most two decimals
float_repr(h) ==
    LET a == IF h < 0 THEN -h ELSE h
        f == a % 100
    IN  (IF h < 0 THEN <<"-">> ELSE <<>>)
        \o int_to_str(a \div 100) \o <<".">>
        \o (IF f % 10 = 0 THEN <<Digits[(f \div 10) + 1]>>
            ELSE <<Digits[(f \div 10) + 1], Digits[(f % 10) + 1]>>)

\* "%s" % amount: a string is itself, None is "None", a float is its repr
py_str(x) ==
    CASE x.t = "float" -> float_repr(x.n)
      [] x.t = "str" -> x.s
      [] OTHER -> <<"N", "o", "n", "e">>

-----------------------------------------------------------------------------
(* util: saturate_color, darken_color, lighten_color (HSL-space operations) *)

\* int(x / y): division that truncates toward zero
TruncDiv(x, y) == IF x >= 0 THEN x \div y ELSE -((-x) \div y)

Max3(t) == CHOOSE m \in {t[1], t[2], t[3]} : \A k \in 1..3 : t[k] <= m
Min3(t) == CHOOSE m \in {t[1], t[2], t[3]} : \A k \in 1..3 : t[k] >= m

\* The widest channel range a colour of doubled lightness l2 (0..510) can
\* have: saturation is range / HslSpan(l2).
HslSpan(l2) == IF l2 <= 255 THEN l2 ELSE 510 - l2

\* The colour of the hue of rgb with doubled lightness l2n and channel range
\* num / den of the old range; a grey has hue 0 (red) and range grey_rng.
HslRebuild(rgb, l2n, num, den, grey_rng) ==
    LET l2 == Max3(rgb) + Min3(rgb)
    IN  IF Max3(rgb) = Min3(rgb)
        THEN <<(l2n + grey_rng) \div 2, (l2n - grey_rng) \div 2, (l2n - grey_rng) \div 2>>
        ELSE [k \in 1..3 |-> (l2n + TruncDiv((2 * rgb[k] - l2) * num, den)) \div 2]

\* util.saturate_color(color, amount): the saturation is set to amount
\* (hundredths), hue and lightness are kept
saturate_color(color, amount) ==
    LET rgb == hex_to_rgb(color)
        l2 == Max3(rgb) + Min3(rgb)
        c == HslRebuild(rgb, l2, amount * HslSpan(l2),
                        100 * (Max3(rgb) - Min3(rgb)),
                        TruncDiv(amount * HslSpan(l2), 100))
    IN  rgb_to_hex(c[1], c[2], c[3])

\* util.darken_color(color, amount): the lightness is scaled toward 0 by
\* amount (hundredths), hue and saturation are kept
darken_color(color, amount) ==
    LET rgb == hex_to_rgb(color)
        l2 == Max3(rgb) + Min3(rgb)
        l2n == (l2 * (100 - amount)) \div 100
        c == HslRebuild(rgb, l2n, HslSpan(l2n), HslSpan(l2), 0)
    IN  rgb_to_hex(c[1], c[2], c[3])

\* util.lighten_color(color, amount): the lightness is scaled toward 1 by
\* amount (hundredths), hue and saturation are kept
lighten_color(color, amount) ==
    LET rgb == hex_to_rgb(color)
        l2 == Max3(rgb) + Min3(rgb)
        l2n == l2 + ((510 - l2) * amount) \div 100
        c == HslRebuild(rgb, l2n, HslSpan(l2n), HslSpan(l2), 0)
    IN  rgb_to_hex(c[1], c[2], c[3])

-----------------------------------------------------------------------------
(* saturate_colors and generic_adjust *)

\* the slots saturate_colors leaves alone (0-based)
KeptSlots == {0, 7, 8, 15}

\* a saturate_colors that leaves the amount 1.0 out
saturate_colors_strict(cols, amount) ==
    IF ~py_bool(amount) THEN [err |-> "", out |-> cols]
    ELSE LET f == py_float(amount)
         IN  IF f.err # "" THEN [err |-> f.err, out |-> cols]
             ELSE IF f.val < 100
             THEN [err |-> "",
                   out |-> [k \in 1..Len(cols) |->
                              IF (k - 1) \in KeptSlots THEN cols[k]
                              ELSE saturate_color(cols[k], f.val)]]
             ELSE [err |-> "", out |-> cols]

\* saturate_colors(colors, amount): the list returned, or the exception
saturate_colors(cols, amount) ==
    IF ~py_bool(amount) THEN [err |-> "", out |-> cols]
    ELSE LET f == py_float(amount)
         IN  IF f.err # "" THEN [err |-> f.err, out |-> cols]
             ELSE IF f.val <= 100
             THEN [err |-> "",
                   out |-> [k \in 1..Len(cols) |->
                              IF (k - 1) \in KeptSlots THEN cols[k]
                              ELSE saturate_color(cols[k], f.val)]]
             ELSE [err |-> "", out |-> cols]

\* generic_adjust(colors, light). In light mode the loop of lines 82-84
\* rebinds its loop variable only: the list keeps every element.
generic_adjust(cols, light) ==
    IF Len(cols) < 16 THEN [err |-> "IndexError", out |-> cols]
    ELSE IF light
    THEN LET c0 == lighten_color(cols[1], 95)
             c7 == darken_color(c0, 75)
             c8 == darken_color(c0, 25)
         IN  [err |-> "",
              out |-> [cols EXCEPT ![1] = c0, ![8] = c7, ![9] = c8, ![16] = c7]]
    ELSE LET c0 == darken_color(cols[1], 80)
             c7 == lighten_color(c0, 75)
             c8 == lighten_color(c0, 25)
         IN  [err |-> "",
              out |-> [cols EXCEPT ![1] = c0, ![8] = c7, ![9] = c8, ![16] = c7]]

-----------------------------------------------------------------------------
(* cache_fname *)

\* settings.__cache_version__
cache_version == <<"1", ".", "1", ".", "0">>

\* re.sub("[/|\\|.]", "_", img): the pattern, as the regular expression
\* engine receives it, is the class [/|\|.], whose members are '/', '|' and
\* '.'; the backslash only escapes the second '|'.
re_sub(img) ==
    [k \in 1..Len(img) |-> IF img[k] \in {"/", "|", "."} THEN "_" ELSE img[k]]

\* a file name that leaves the image's size out
cache_fname_nosize(img, backend, light, cache_dir, sat) ==
    << cache_dir,
       <<"s", "c", "h", "e", "m", "e", "s">>,
       re_sub(img) \o <<"_">>
         \o (IF light THEN <<"l", "i", "g", "h", "t">> ELSE <<"d", "a", "r", "k">>)
         \o <<"_">> \o backend \o <<"_">> \o py_str(sat)
         \o <<"_">> \o cache_version \o <<".", "j", "s", "o", "n">> >>

\* cache_fname(img, backend, light, cache_dir, sat): [cache_dir, "schemes",
\* file name]; os.path.getsize(img) is the image's size in fsize
cache_fname(img, backend, light, cache_dir, sat) ==
    LET color_type == IF light THEN <<"l", "i", "g", "h", "t">>
                               ELSE <<"d", "a", "r", "k">>
        file_name == re_sub(img)
        file_size == fsize[img]
    IN  << cache_dir,
           <<"s", "c", "h", "e", "m", "e", "s">>,
           file_name \o <<"_">> \o color_type \o <<"_">> \o backend
             \o <<"_">> \o py_str(sat) \o <<"_">> \o int_to_str(file_size)
             \o <<"_">> \o cache_version \o <<".", "j", "s", "o", "n">> >>

\* os.path.join of two relative-or-absolute parts, the second not absolute
path_join2(a, b) ==
    IF a = <<>> \/ a[Len(a)] = "/" THEN a \o b ELSE a \o <<"/">> \o b

\* os.path.join(*cache_name)
path_join(parts) == path_join2(path_join2(parts[1], parts[2]), parts[3])

-----------------------------------------------------------------------------
(* Inputs of the post-processors, of cache_fname and of get *)

\* 16-colour lists handed to saturate_colors and generic_adjust
PostInputs ==
    { Dup(Rot(Without(Pool, 17, 18), r), d) : r \in 0..MaxRot, d \in 0..MaxDup }

\* amounts of saturation: None, strings and floats (in hundredths)
Amounts ==
    { PyNone, PyStr(<<>>), PyStr(<<"0">>), PyStr(<<"0", ".", "0">>),
      PyStr(<<"0", ".", "5">>), PyStr(<<"1">>), PyStr(<<"1", ".", "0">>),
      PyStr(<<"1", ".", "5">>), PyStr(<<"2">>), PyStr(<<"-", "0", ".", "5">>),
      PyStr(<<"x">>),
      PyFloat(0), PyFloat(1), PyFloat(50), PyFloat(100), PyFloat(101),
      PyFloat(150), PyFloat(-50) }

\* image paths
Images ==
    { <<"/", "a", ".", "b">>, <<"/", "a", "_", "b">>,
      <<"/", "a", "\\", "b">>, <<"/", "a", "|", "b">> }

\* image sizes in bytes
Sizes == {7, 10000}

\* the cache directory
CacheDir == <<"/", "c">>

\* backend names handed to cache_fname
FnameBackends == { <<"w", "a", "l">>, <<"r", "a", "n", "d", "o", "m">> }

\* saturation arguments of cache_fname and get
Sats == { PyStr(<<>>), PyStr(<<"0", ".", "5">>), PyStr(<<"0">>), PyFloat(50) }

-----------------------------------------------------------------------------
(* match_colors, one loop iteration per step *)

MatchIdle ==
    /\ colors = <<>> /\ out = <<>> /\ cs = <<>> /\ i = 0 /\ mpc = "idle"

PureIdle == call = [op |-> "none"] /\ result = [err |-> "pending", out |-> <<>>]

GetIdle ==
    /\ files = <<>> /\ fsize = [im \in Images |-> 0] /\ alpha_num = <<>>
    /\ last = [kind |-> "none"] /\ first = <<>> /\ prev = <<>> /\ origin = <<>>
    /\ ncalls = 0

\* lines 52-53: out = [None] * len(colors); cs = colors.copy()
InitMatch ==
    /\ colors \in MatchInputs
    /\ out = [k \in 1..Len(colors) |-> None]
    /\ cs = colors
    /\ i = 0
    /\ mpc = "loop"
    /\ PureIdle /\ GetIdle

\* lines 54-58: one iteration of the for loop
MatchIter ==
    /\ mpc = "loop"
    /\ i < Len(x_colors)
    /\ LET s == MatchStep(out, cs, i)
       IN  IF s.err # ""
           THEN /\ mpc' = "error"
                /\ UNCHANGED <<out, cs, i>>
           ELSE /\ out' = s.out
                /\ cs' = s.cs
                /\ i' = i + 1
                /\ mpc' = "loop"
    /\ UNCHANGED <<colors, pvars, gvars>>

\* line 59: return out
MatchReturn ==
    /\ mpc = "loop"
    /\ i = Len(x_colors)
    /\ mpc' = "done"
    /\ UNCHANGED <<colors, out, cs, i, pvars, gvars>>

NextMatch == MatchIter \/ MatchReturn

SpecMatch == InitMatch /\ [][NextMatch]_vars

-----------------------------------------------------------------------------
(* saturate_colors, generic_adjust and cache_fname, one call per behaviour *)

InitPure ==
    /\ \/ /\ call \in [op : {"saturate_colors"}, colors : PostInputs, amount : Amounts]
          /\ fsize = [im \in Images |-> 0]
       \/ /\ call \in [op : {"generic_adjust"}, colors : PostInputs, light : BOOLEAN]
          /\ fsize = [im \in Images |-> 0]
       \/ /\ call \in [op : {"cache_fname"}, img : Images, backend : FnameBackends,
                       light : BOOLEAN, cache_dir : {CacheDir}, sat : Sats]
          /\ fsize \in [Images -> Sizes]
    /\ result = [err |-> "pending", out |-> <<>>]
    /\ files = <<>> /\ alpha_num = <<>>
    /\ last = [kind |-> "none"] /\ first = <<>> /\ prev = <<>> /\ origin = <<>>
    /\ ncalls = 0
    /\ MatchIdle

\* lines 100-107
DoSaturateColors ==
    /\ call.op = "saturate_colors" /\ result.err = "pending"
    /\ result' = saturate_colors(call.colors, call.amount)
    /\ UNCHANGED <<call, mvars, gvars>>

\* lines 79-97
DoGenericAdjust ==
    /\ call.op = "generic_adjust" /\ result.err = "pending"
    /\ result' = generic_adjust(call.colors, call.light)
    /\ UNCHANGED <<call, mvars, gvars>>

\* lines 110-118
DoCacheFname ==
    /\ call.op = "cache_fname" /\ result.err = "pending"
    /\ result' = [err |-> "",
                  out |-> cache_fname(call.img, call.backend, call.light,
                                      call.cache_dir, call.sat)]
    /\ UNCHANGED <<call, mvars, gvars>>

NextPure == DoSaturateColors \/ DoGenericAdjust \/ DoCacheFname

SpecPure == InitPure /\ [][NextPure]_vars

-----------------------------------------------------------------------------
(* get_backend, the backend plugins and get *)

Wal == <<"w", "a", "l">>
Colorz == <<"c", "o", "l", "o", "r", "z">>
Broken == <<"b", "r", "o", "k", "e", "n">>
Random == <<"r", "a", "n", "d", "o", "m">>
Nope == <<"n", "o", "p", "e">>

\* list_backends(): the plugin files of the backends directory
list_backends == {Wal, Colorz, Broken}

\* the plugins whose import succeeds
Importable == {Wal, Colorz}

\* get_backend(backend): the names it may return; "random" is any listed
\* plugin (the first of a shuffled list), every other name is itself
get_backend(backend) ==
    IF backend = Random THEN list_backends ELSE {backend}

\* lines 162-166: the plugin imported for a name, "wal" on ImportError
import_backend(backend) ==
    IF backend \in Importable THEN backend ELSE Wal

\* What a plugin's get(img, light) may do: return a list of colours or
\* raise. The plugins are not part of colors.py: any list or failure is open
\* to them, here 16 colours, 16 with a repeated colour, 15 colours, or an
\* exception.
BackendResults(plugin) ==
    IF plugin = Wal
    THEN { [raised |-> FALSE, colors |-> Without(Pool, 17, 18)],
           [raised |-> FALSE, colors |-> SubSeq(Without(Pool, 17, 18), 1, 15)],
           [raised |-> TRUE, colors |-> <<>>] }
    ELSE { [raised |-> FALSE, colors |-> Dup(Rot(Without(Pool, 3, 18), 1), 2)],
           [raised |-> TRUE, colors |-> <<>>] }

\* the arguments of saturation of the calls of get
GetSats == { PyStr(<<>>), PyStr(<<"0", ".", "5">>) }

\* The lists that reach match_colors from get: what a plugin returned, after
\* saturate_colors.
GetLists ==
    { saturate_colors(r.colors, sat).out :
        r \in {x \in BackendResults(Wal) \cup BackendResults(Colorz) : ~x.raised},
        sat \in GetSats }

\* match_colors on the lists of get, evaluated once
MatchTable ==
    [l \in GetLists |-> match_loop([k \in 1..Len(l) |-> None], l, 0)]

\* match_colors: the list returned, or the exception raised
match_colors(cols) ==
    IF cols \in GetLists THEN MatchTable[cols]
    ELSE match_loop([k \in 1..Len(cols) |-> None], cols, 0)

\* colors_to_dict: the Scheme built from the matched colours. The dictionary
\* "colors" is kept as the sequence of its values, slot color<k> at index k + 1.
colors_to_dict(cols, img) ==
    LET m == match_colors(cols)
    IN  IF m.err # "" THEN [err |-> m.err]
        ELSE IF Len(m.out) < 16 THEN [err |-> "IndexError"]
        ELSE [err |-> "",
              wallpaper |-> img,
              alpha |-> alpha_num,
              special |-> [background |-> m.out[1],
                           foreground |-> m.out[16],
                           cursor |-> m.out[16]],
              colors |-> m.out]

\* lines 148-149: the cache file of a call
get_cache_file_wal(img, light, backend, cache_dir, sat) ==
    path_join(cache_fname(img, Wal, light, cache_dir, sat))

get_cache_file(img, light, backend, cache_dir, sat) ==
    path_join(cache_fname(img, backend, light, cache_dir, sat))

\* os.path.isfile(cache_file)
isfile(path) == path \in DOMAIN files

\* theme.file(cache_file): the JSON blob of the file, parsed
theme_file(path) == files[path]

\* util.save_file_json(colors, cache_file): the directory after the write
save_file_json(data, path) ==
    [q \in DOMAIN files \cup {path} |-> IF q = path THEN data ELSE files[q]]

\* a cache hit that returns the file as stored
get_hit_stale(cache_file) == theme_file(cache_file)

\* lines 152-153: the cached Scheme with alpha overwritten
get_hit(cache_file) == [theme_file(cache_file) EXCEPT !.alpha = alpha_num]

\* a generation that stores whatever was matched and reports no failure
get_miss_lenient(img, sat, r) ==
    LET s == saturate_colors(r.colors, sat)
        m == match_loop([k \in 1..16 |-> None], s.out, 0)
    IN  [err |-> "",
         scheme |-> [wallpaper |-> img, alpha |-> alpha_num,
                     special |-> [background |-> None, foreground |-> None,
                                  cursor |-> None],
                     colors |-> m.out]]

\* saturate_colors on the lists the plugins return, evaluated once
SatTable ==
    [l \in {x.colors : x \in BackendResults(Wal) \cup BackendResults(Colorz)},
     sat \in GetSats |-> saturate_colors(l, sat)]

\* lines 170-171: the Scheme generated from what the plugin did, or the
\* exception that leaves get
get_miss(img, sat, r) ==
    IF r.raised THEN [err |-> "BackendError", scheme |-> <<>>]
    ELSE LET s == SatTable[r.colors, sat]
         IN  IF s.err # "" THEN [err |-> s.err, scheme |-> <<>>]
             ELSE LET d == colors_to_dict(s.out, img)
                  IN  IF d.err # "" THEN [err |-> d.err, scheme |-> <<>>]
                      ELSE [err |-> "",
                            scheme |-> [wallpaper |-> d.wallpaper,
                                        alpha |-> d.alpha,
                                        special |-> d.special,
                                        colors |-> d.colors]]

\* the arguments of the calls of get
GetArgs ==
    [img : {<<"/", "a", ".", "b">>, <<"/", "a", "_", "b">>}, light : {FALSE},
     backend : {Wal}, cache_dir : {CacheDir}, sat : {PyStr(<<>>)}]
    \cup
    [img : {<<"/", "a", ".", "b">>}, light : {FALSE},
     backend : {Random}, cache_dir : {CacheDir}, sat : {PyStr(<<>>)}]
    \cup
    [img : {<<"/", "a", ".", "b">>}, light : {TRUE},
     backend : {Nope}, cache_dir : {CacheDir}, sat : {PyStr(<<"0", ".", "5">>)}]

\* the image that is saved again between calls
ResavedImage == <<"/", "a", ".", "b">>

\* the values of util.Color.alpha_num
Alphas == { <<"1", "0", "0">>, <<"8", "0">> }

\* the cache key of a call: its arguments and the image's size
Key(a) == [args |-> a, size |-> fsize[a.img]]

InitGet ==
    /\ files = <<>>
    /\ fsize \in {f \in [Images -> Sizes] : \A im \in Images : im # ResavedImage => f[im] = 7}
    /\ alpha_num \in Alphas
    /\ last = [kind |-> "none"]
    /\ first = <<>> /\ prev = <<>> /\ origin = <<>>
    /\ ncalls = 0
    /\ MatchIdle /\ PureIdle

\* the record of a call, and of the latest call per arguments
Record(a, cache_file) ==
    /\ prev' = [b \in DOMAIN prev \cup {a} |->
                  IF b = a THEN [size |-> fsize[a.img], path |-> cache_file,
                                 before |-> IF a \in DOMAIN prev
                                            THEN <<prev[a].size, prev[a].path>>
                                            ELSE <<>>]
                  ELSE prev[b]]
    /\ ncalls' = ncalls + 1

\* lines 145-176: one call of get
Get ==
    /\ ncalls < MaxCalls
    /\ \E a \in GetArgs :
         \E cache_file \in {get_cache_file(a.img, a.light, a.backend, a.cache_dir, a.sat)} :
             /\ Record(a, cache_file)
             /\ IF isfile(cache_file)
                THEN \E c \in {get_hit(cache_file)} :
                         /\ last' = [kind |-> "hit", args |-> a, size |-> fsize[a.img],
                                     path |-> cache_file, plugin |-> <<>>,
                                     did |-> [raised |-> FALSE, n |-> 0],
                                     err |-> "", scheme |-> c]
                         /\ first' = IF Key(a) \in DOMAIN first THEN first
                                     ELSE [k \in DOMAIN first \cup {Key(a)} |->
                                             IF k = Key(a) THEN c ELSE first[k]]
                         /\ UNCHANGED <<files, origin>>
                ELSE \E b \in get_backend(a.backend) :
                     \E r \in BackendResults(import_backend(b)) :
                     \E g \in {get_miss(a.img, a.sat, r)} :
                           /\ last' = [kind |-> IF g.err = "" THEN "generated" ELSE "failed",
                                       args |-> a, size |-> fsize[a.img],
                                       path |-> cache_file,
                                       plugin |-> import_backend(b),
                                       did |-> [raised |-> r.raised, n |-> Len(r.colors)],
                                       err |-> g.err, scheme |-> g.scheme]
                           /\ IF g.err = ""
                              THEN /\ files' = save_file_json(g.scheme, cache_file)
                                   /\ origin' = [q \in DOMAIN origin \cup {cache_file} |->
                                                   IF q = cache_file THEN Key(a) ELSE origin[q]]
                                   /\ first' = IF Key(a) \in DOMAIN first THEN first
                                               ELSE [k \in DOMAIN first \cup {Key(a)} |->
                                                       IF k = Key(a) THEN g.scheme ELSE first[k]]
                              ELSE UNCHANGED <<files, origin, first>>
    /\ UNCHANGED <<fsize, alpha_num, mvars, pvars>>

\* the image file is saved again with another size
ResaveImage ==
    /\ \E im \in {ResavedImage}, n \in Sizes :
         /\ n # fsize[im]
         /\ fsize' = [fsize EXCEPT ![im] = n]
    /\ UNCHANGED <<files, alpha_num, last, first, prev, origin, ncalls, mvars, pvars>>

\* util.Color.alpha_num is set to another value
SetAlpha ==
    /\ \E v \in Alphas : v # alpha_num /\ alpha_num' = v
    /\ UNCHANGED <<files, fsize, last, first, prev, origin, ncalls, mvars, pvars>>

NextGet == Get \/ ResaveImage \/ SetAlpha

SpecGet == InitGet /\ [][NextGet]_vars

-----------------------------------------------------------------------------
(* Claims about match_colors *)

Distinct(s) == \A a \in 1..Len(s), b \in 1..Len(s) : a # b => s[a] # s[b]

Count(s, v) == Cardinality({k \in 1..Len(s) : s[k] = v})

\* C1: for 16 pairwise distinct input colours, match_colors returns 16 colours
\* that are a permutation of the input: every input colour fills exactly one
\* slot, no slot is empty or holds a foreign colour, and the slots color0 to
\* color15 of the Scheme of colors_to_dict are pairwise distinct.
C1_Permutation ==
    (mpc = "done" /\ Len(colors) = 16 /\ Distinct(colors)) =>
        /\ Len(out) = 16
        /\ \A k \in 1..16 : Count(out, colors[k]) = 1
        /\ \A k \in 1..16 : out[k] # None /\ Count(colors, out[k]) = 1
        /\ LET d == colors_to_dict(colors, <<>>)
           IN  d.err = "" /\ d.colors = out /\ Distinct(d.colors)

\* match_colors has returned for distinct colours of which two, differing
\* only in letter case, are equally far from every reference colour
C1_Witness ==
    /\ mpc = "done" /\ Len(colors) = 16 /\ Distinct(colors)
    /\ \E a \in 1..16, b \in 1..16 :
          a # b /\ hex_to_rgb(colors[a]) = hex_to_rgb(colors[b])
    /\ out # colors

\* s without its element at position k
DropAt(s, k) == [j \in 1..(Len(s) - 1) |-> IF j < k THEN s[j] ELSE s[j + 1]]

\* C2: the slots are served in the order 0..15; slot i receives a colour of
\* the remaining pool whose distance to reference colour i is least over the
\* pool, the first such colour in pool order on a tie, and exactly that one
\* occurrence leaves the pool; the other slots are left as they were.
C2_Greedy ==
    /\ [](Len(colors) = 16 =>
            (mpc # "error" /\ (mpc = "done" => i = 16 /\ cs = <<>>)))
    /\ [][(mpc = "loop" /\ Len(colors) = 16 /\ mpc' # "error" /\ <<out, cs, i>>' # <<out, cs, i>>) =>
        /\ i' = i + 1
        /\ Len(cs) = 16 - i
        /\ \E k \in 1..Len(cs) :
              /\ out'[i + 1] = cs[k]
              /\ \A j \in 1..Len(cs) :
                    color_diff(x_colors[i + 1], cs[j]) >= color_diff(x_colors[i + 1], cs[k])
              /\ \A j \in 1..(k - 1) :
                    color_diff(x_colors[i + 1], cs[j]) > color_diff(x_colors[i + 1], cs[k])
              /\ cs' = DropAt(cs, k)
        /\ \A j \in 1..16 : j # i + 1 => out'[j] = out[j]]_vars

\* match_colors has returned for an input with a repeated colour, and some
\* slot was decided on a tie: a different colour served later was as close
C2_Witness ==
    /\ mpc = "done" /\ ~Distinct(colors)
    /\ \E n \in 1..16, m \in 1..16 :
          /\ n < m /\ out[m] # out[n]
          /\ color_diff(x_colors[n], out[m]) = color_diff(x_colors[n], out[n])

-----------------------------------------------------------------------------
(* Claims about saturate_colors *)

Returned(op) == call.op = op /\ result.err = ""

\* the amount is a number or a numeric string
NumericAmount(x) == x.t = "float" \/ (x.t = "str" /\ x.s # <<>> /\ py_float(x).err = "")

\* the amount is absent: None or the empty string
AbsentAmount(x) == x.t = "None" \/ (x.t = "str" /\ x.s = <<>>)

\* C7 as stated: slots 0, 7, 8, 15 are kept; an absent, zero or greater than
\* 1.0 amount, and every amount outside (0.0, 1.0], changes nothing; an
\* amount in (0.0, 1.0] puts saturate_color(input[i], amount) in every other
\* slot.
C7_Original ==
    Returned("saturate_colors") =>
        LET in == call.colors
            a == call.amount
            v == py_float(a).val
        IN  /\ \A k \in 1..16 : (k - 1) \in {0, 7, 8, 15} => result.out[k] = in[k]
            /\ AbsentAmount(a) => result.out = in
            /\ (NumericAmount(a) /\ (v <= 0 \/ v > 100)) => result.out = in
            /\ (NumericAmount(a) /\ v > 0 /\ v <= 100) =>
                  \A k \in 1..16 : (k - 1) \notin {0, 7, 8, 15} =>
                      result.out[k] = saturate_color(in[k], v)

\* C7 amended: slots 0, 7, 8, 15 are always kept; None, the empty string,
\* the number zero and every amount greater than 1.0 change nothing; every
\* other numeric amount (a non-empty numeric string, the strings "0" and
\* "0.0" included, or a non-zero number, of value at most 1.0, negative
\* values included) puts saturate_color(input[i], float(amount)) in every
\* other slot.
C7_Amended ==
    Returned("saturate_colors") =>
        LET in == call.colors
            a == call.amount
            v == py_float(a).val
            zero == a.t = "float" /\ a.n = 0
        IN  /\ \A k \in 1..16 : (k - 1) \in {0, 7, 8, 15} => result.out[k] = in[k]
            /\ (AbsentAmount(a) \/ zero) => result.out = in
            /\ (NumericAmount(a) /\ v > 100) => result.out = in
            /\ (NumericAmount(a) /\ ~zero /\ v <= 100) =>
                  \A k \in 1..16 : (k - 1) \notin {0, 7, 8, 15} =>
                      result.out[k] = saturate_color(in[k], v)

\* saturate_colors has returned for the string "0.0" and changed a colour
C7_Witness ==
    /\ Returned("saturate_colors")
    /\ call.amount = PyStr(<<"0", ".", "0">>)
    /\ \E k \in 1..16 : result.out[k] # call.colors[k]
    /\ \A k \in {1, 8, 9, 16} : result.out[k] = call.colors[k]

-----------------------------------------------------------------------------
(* Claims about generic_adjust *)

\* C8: in light mode every slot other than 0, 7, 8, 15 holds
\* darken(saturate(c[i], 0.60), 0.5); slot 0 holds lighten(c[0], 0.95) of
\* the original slot 0; slot 7 darken(result[0], 0.75); slot 8
\* darken(result[0], 0.25); slot 15 equals slot 7.
C8_LightAdjust ==
    (Returned("generic_adjust") /\ call.light) =>
        LET c == call.colors
            r == result.out
        IN  /\ \A k \in 1..16 : (k - 1) \notin {0, 7, 8, 15} =>
                  r[k] = darken_color(saturate_color(c[k], 60), 50)
            /\ r[1] = lighten_color(c[1], 95)
            /\ r[8] = darken_color(r[1], 75)
            /\ r[9] = darken_color(r[1], 25)
            /\ r[16] = r[8]

-----------------------------------------------------------------------------
(* Claims about cache_fname *)

\* the image path with every '/', '\' and '.' replaced by '_'
Sanitized(img) ==
    [k \in 1..Len(img) |-> IF img[k] \in {"/", "\\", "."} THEN "_" ELSE img[k]]

\* C6: cache_fname yields <cache_dir>/schemes/<name>_<light|dark>_<backend>_
\* <saturation or empty>_<size>_<version>.json, <name> being the image path
\* with every '/', '\' and '.' replaced by '_' and nothing else changed.
C6_FileName ==
    Returned("cache_fname") =>
        path_join(result.out) =
            call.cache_dir \o <<"/", "s", "c", "h", "e", "m", "e", "s", "/">>
            \o Sanitized(call.img) \o <<"_">>
            \o (IF call.light THEN <<"l", "i", "g", "h", "t">> ELSE <<"d", "a", "r", "k">>)
            \o <<"_">> \o call.backend
            \o <<"_">> \o py_str(call.sat)
            \o <<"_">> \o int_to_str(fsize[call.img])
            \o <<"_">> \o cache_version \o <<".", "j", "s", "o", "n">>

-----------------------------------------------------------------------------
(* Claims about get *)

\* a step that is a call of get
GetStep == ncalls' = ncalls + 1

\* the key of the call just made
LastKey == [args |-> last.args, size |-> last.size]

\* C3: once get has succeeded for some arguments, a later get with the same
\* arguments and the same image size is a pure cache read (no plugin is
\* resolved or invoked, no file is written) whose Scheme has the wallpaper,
\* special and colors of the first call's and the alpha current at the later
\* call.
C3_Idempotent ==
    [][(GetStep /\ LastKey' \in DOMAIN first) =>
        /\ last'.kind = "hit"
        /\ last'.plugin = <<>> /\ ~last'.did.raised /\ last'.did.n = 0
        /\ files' = files
        /\ last'.scheme.wallpaper = first[LastKey'].wallpaper
        /\ last'.scheme.special = first[LastKey'].special
        /\ last'.scheme.colors = first[LastKey'].colors
        /\ last'.scheme.alpha = alpha_num']_vars

\* a cache read of a Scheme generated under another alpha
C3_Witness ==
    /\ last.kind = "hit"
    /\ LastKey \in DOMAIN first
    /\ last.path \in DOMAIN origin /\ origin[last.path] = LastKey
    /\ first[LastKey].alpha # alpha_num
    /\ last.scheme.alpha = alpha_num
    /\ files[last.path].alpha # alpha_num

\* the earlier call of get with the arguments a, if any: <<size, path>>
Earlier(a) == IF a \in DOMAIN prev THEN <<prev[a].size, prev[a].path>> ELSE <<>>

\* C4 as stated: a call that finds the image's size changed since the
\* previous call with the same arguments computes another cache file name
\* and reruns generation instead of returning a cached Scheme.
C4_Original ==
    [][(GetStep /\ Earlier(last'.args) # <<>>
               /\ Earlier(last'.args)[1] # last'.size) =>
        /\ last'.path # Earlier(last'.args)[2]
        /\ last'.kind # "hit"
        /\ last'.plugin # <<>>]_vars

\* C4 amended: such a call computes another cache file name than the previous
\* call; it reruns generation (the plugin is invoked, and the cache file is
\* written when the plugin delivers 16 colours) unless a file of that name
\* already exists, as it does after an earlier call made when the image had
\* this size: then the cached Scheme is returned and no plugin is invoked.
C4_Amended ==
    [][(GetStep /\ Earlier(last'.args) # <<>>
               /\ Earlier(last'.args)[1] # last'.size) =>
        /\ last'.path # Earlier(last'.args)[2]
        /\ IF last'.path \in DOMAIN files
           THEN last'.kind = "hit" /\ last'.plugin = <<>>
           ELSE /\ last'.plugin # <<>>
                /\ (~last'.did.raised /\ last'.did.n = 16) =>
                     (last'.kind = "generated" /\ last'.path \in DOMAIN files')]_vars

\* a call that found the size changed since the previous call with its
\* arguments and returned a cached Scheme
C4_Witness ==
    /\ last.kind = "hit"
    /\ prev[last.args].before # <<>>
    /\ prev[last.args].before[1] # last.size
    /\ prev[last.args].before[2] # last.path

\* C5: two cache keys (image path, mode, backend name, saturation, size,
\* version) that differ never share a cache file, so that the file a call of
\* get reads or writes was generated for that call's own key.
C5_Injective ==
    (last.kind # "none" /\ last.path \in DOMAIN origin) =>
        origin[last.path] = LastKey

\* C9: when the plugin raises or returns fewer than 16 colours, get fails to
\* its caller, no cache file is created or changed, and the call's cache
\* file still does not exist, so that the same call is a miss again.
C9_FailureKeepsCache ==
    [][(GetStep /\ last'.plugin # <<>>
               /\ (last'.did.raised \/ last'.did.n < 16)) =>
        /\ last'.kind = "failed" /\ last'.err # ""
        /\ files' = files
        /\ last'.path \notin DOMAIN files']_vars

\* get has failed on 15 colours, for the second time with these arguments
\* and this cache file
C9_Witness ==
    /\ last.kind = "failed" /\ ~last.did.raised /\ last.did.n = 15
    /\ prev[last.args].before = <<last.size, last.path>>
    /\ last.path \notin DOMAIN files

\* the cache file of a call, named after the backend as requested
RequestedPath(a) ==
    path_join(cache_fname(a.img, a.backend, a.light, a.cache_dir, a.sat))

\* C10: the cache file is named after the backend as requested, not as
\* resolved: a Scheme generated for "random" or for a name that cannot be
\* imported is stored under the requested name's path and under no other,
\* and once it is stored every later get with the same arguments and image
\* size returns it without resolving or invoking a plugin.
C10_RequestedName ==
    [][(GetStep /\ last'.args.backend \in {Random, Nope}) =>
        /\ last'.path = RequestedPath(last'.args)
        /\ last'.kind = "generated" =>
             /\ last'.plugin \in Importable
             /\ DOMAIN files' = DOMAIN files \cup {RequestedPath(last'.args)}
             /\ files'[RequestedPath(last'.args)].colors = last'.scheme.colors
        /\ RequestedPath(last'.args) \in DOMAIN files =>
             /\ last'.kind = "hit" /\ last'.plugin = <<>>
             /\ last'.scheme.colors = files[RequestedPath(last'.args)].colors
             /\ files' = files]_vars

\* get was called for a name that cannot be imported and returned the Scheme
\* the fallback plugin had generated in an earlier call
C10_Witness ==
    /\ last.kind = "hit" /\ last.args.backend = Nope
    /\ last.path \in DOMAIN origin /\ origin[last.path] = LastKey
    /\ last.path = RequestedPath(last.args)
    /\ last.path # path_join(cache_fname(last.args.img, Wal, last.args.light,
                                         last.args.cache_dir, last.args.sat))

=============================================================================
